---------------------------- MODULE Spec2Model ----------------------------
(***************************************************************************)
(* A model of imo, a static blog generator for org-mode files.             *)
(*                                                                         *)
(*   site.rs       Site::load_org_data / load_article: extraction of       *)
(*                 Articles from a parsed document and their insertion     *)
(*                 into the Site (articles, index, subid map, last_update) *)
(*   handlers.rs   ImoHtmlHandler: headings and links at render time       *)
(*   generator.rs  generate: article pages, then the Atom feed             *)
(*   main.rs       main: every file is loaded, then generate runs          *)
(*                                                                         *)
(* Strings are sequences of one-character strings.  A point in time        *)
(* (NaiveDateTime) is a natural number; YearOf gives its calendar year.    *)
(* Option<T> is a sequence of length 0 (None) or 1 (Some).                 *)
(***************************************************************************)
EXTENDS Integers, Sequences, FiniteSets, TLC

VARIABLES
    feed,                    \* Site.feed
    index,                   \* Site.index : Year -> BTreeSet<Rc<Article>>
    articles,                \* Site.articles : Id -> Rc<Article>
    last_update,             \* Site.last_update : Option<NaiveDateTime>
    subid_to_articleid_map,  \* Site.subid_to_articleid_map : Id -> Id
    orgs,                    \* the document trees (Rc<RefCell<Org>>), in load order
    queue,                   \* load_org_data: headlines of the current loop still to visit
    pc,                      \* position of main / generate
    notices,                 \* what utils::notice has printed, in order
    ingested,                \* history: the Articles inserted so far, in order
    pending,                 \* generate: Articles still to render in the current loop
    handler_base,            \* ImoHtmlHandler.base
    output,                  \* Output::write calls, in order
    recent_entries           \* generate: the feed's entries

vars == <<feed, index, articles, last_update, subid_to_articleid_map, orgs,
          queue, pc, notices, ingested, pending, handler_base, output,
          recent_entries>>

-----------------------------------------------------------------------------
(* Bounds of the model                                                     *)

MaxDocs == 2            \* documents given on the command line
MaxTime == 3            \* points in time are 1..MaxTime
InstantsPerYear == 2    \* how many of the modelled instants fall in one year

Times == 1..MaxTime

-----------------------------------------------------------------------------
(* Option and sequence helpers                                             *)

None == <<>>
Some(x) == <<x>>
IsSome(o) == Len(o) = 1
Unwrap(o) == o[1]
UnwrapOr(o, d) == IF IsSome(o) THEN o[1] ELSE d

Range(s) == {s[i] : i \in 1..Len(s)}

RECURSIVE Flatten(_)
Flatten(ss) == IF ss = <<>> THEN <<>> ELSE Head(ss) \o Flatten(Tail(ss))

RECURSIVE SetToSortedSeq(_)
\* the elements of a set of integers, ascending
SetToSortedSeq(S) ==
    IF S = {} THEN <<>>
    ELSE LET m == CHOOSE x \in S : \A y \in S : x <= y
         IN  <<m>> \o SetToSortedSeq(S \ {m})

Max(a, b) == IF a >= b THEN a ELSE b

-----------------------------------------------------------------------------
(* Strings                                                                 *)

\* the characters the model uses, in code-point order
Alphabet == <<"\"", "#", "&", ".", "/", ":", ";", "<", ">", "a", "b", "c",
              "d", "e", "f", "g", "h", "i", "j", "l", "m", "n", "o", "p",
              "q", "r", "s", "t", "u", "x">>

CharCode(c) == CHOOSE i \in 1..Len(Alphabet) : Alphabet[i] = c

RECURSIVE StrCmp(_, _)
\* String::cmp: lexicographic by code point; -1, 0 or 1
StrCmp(s, t) ==
    IF s = <<>> /\ t = <<>> THEN 0
    ELSE IF s = <<>> THEN -1
    ELSE IF t = <<>> THEN 1
    ELSE IF CharCode(Head(s)) < CharCode(Head(t)) THEN -1
    ELSE IF CharCode(Head(s)) > CharCode(Head(t)) THEN 1
    ELSE StrCmp(Tail(s), Tail(t))

StartsWith(s, p) == Len(s) >= Len(p) /\ SubSeq(s, 1, Len(p)) = p

Skip(s, n) == SubSeq(s, n + 1, Len(s))

-----------------------------------------------------------------------------
(* The parsed document (orgize::Org)                                       *)
(*                                                                         *)
(* A document is the sequence of its headlines in document order.  Each    *)
(* headline has its parent (0: the document root), its level, its title    *)
(* (raw text, tags, SCHEDULED, ID property) and the elements of its own    *)
(* section.  The arena keeps every node for the life of the process;       *)
(* detaching a node only cuts it from its parent.                          *)

Detached == -1

Plain(kind, start) ==
    [kind |-> kind, start |-> start, repeater |-> FALSE, delay |-> FALSE]

Drawer(name, stamps) ==
    [kind |-> "Drawer", name |-> name, stamps |-> stamps,
     path |-> <<>>, desc |-> None]

Link(path, desc) ==
    [kind |-> "Link", name |-> "", stamps |-> <<>>, path |-> path, desc |-> desc]

HeadlineData(parent, level, raw, tags, sched, id, section) ==
    [parent |-> parent, level |-> level, raw |-> raw, tags |-> tags,
     sched |-> sched, id |-> id, section |-> section]

\* Org::parse_string: the arena of a document, every node attached
Parse(data) ==
    [hl       |-> data,
     parent   |-> [i \in 1..Len(data) |-> data[i].parent],
     attached |-> [i \in 1..Len(data) |->
                      [j \in 1..Len(data[i].section) |-> TRUE]]]

\* Org::headlines: every headline of the document, in document order
OrgHeadlines(org) == [i \in 1..Len(org.hl) |-> i]

\* Headline::children: the headlines attached directly below h, in order
Children(org, h) ==
    SetToSortedSeq({i \in 1..Len(org.hl) : org.parent[i] = h})

RECURSIVE headlines(_, _)
\* every headline below h, in document order
headlines(org, h) ==
    LET ch == Children(org, h)
    IN  Flatten([i \in 1..Len(ch) |-> <<ch[i]>> \o headlines(org, ch[i])])

\* the ID property of a title
get_id(title) == title.id

\* the ID properties of the headlines below h
collect_ids(org, h) ==
    LET hs == headlines(org, h)
    IN  Flatten([i \in 1..Len(hs) |-> get_id(org.hl[hs[i]])])

\* faulty variant: a repeater is not looked at
IsPlainIgnoringRepeater(ts) ==
    /\ ts.kind \in {"Active", "Inactive"}
    /\ ~ts.delay

\* a timestamp the code accepts: Active or Inactive, no repeater, no delay
IsPlain(ts) ==
    /\ ts.kind \in {"Active", "Inactive"}
    /\ ~ts.repeater
    /\ ~ts.delay

\* Headline::detach of every headline in hs that is tagged PRIVATE
DetachPrivate(org, hs) ==
    [org EXCEPT !.parent =
        [i \in 1..Len(org.hl) |->
            IF i \in Range(hs) /\ "PRIVATE" \in org.hl[i].tags
            THEN Detached ELSE org.parent[i]]]

\* the elements directly under the section of h that are still attached
SectionChildren(org, h) ==
    SetToSortedSeq({j \in 1..Len(org.hl[h].section) : org.attached[h][j]})

IsLogbook(elem) == elem.kind = "Drawer" /\ elem.name = "LOGBOOK"

\* faulty variant: only the first LOGBOOK drawer is detached
DetachFirstLogbook(org, h) ==
    [org EXCEPT !.attached[h] =
        [j \in 1..Len(org.hl[h].section) |->
            IF /\ IsLogbook(org.hl[h].section[j])
               /\ \A k \in 1..(j - 1) : ~IsLogbook(org.hl[h].section[k])
            THEN FALSE
            ELSE org.attached[h][j]]]

\* NodeId::detach of every LOGBOOK drawer directly under the section of h
DetachLogbook(org, h) ==
    [org EXCEPT !.attached[h] =
        [j \in 1..Len(org.hl[h].section) |->
            IF IsLogbook(org.hl[h].section[j]) THEN FALSE
            ELSE org.attached[h][j]]]

\* faulty variant: a timestamp equal to `published` is recorded too
RecordUpdatedNotStrict(updated, published, ts) ==
    IF IsPlain(ts) /\ ts.start >= published
    THEN IF IsSome(updated)
         THEN IF ts.start > Unwrap(updated) THEN Some(ts.start) ELSE updated
         ELSE Some(ts.start)
    ELSE updated

\* one timestamp of a LOGBOOK drawer seen with `updated` so far
RecordUpdated(updated, published, ts) ==
    IF IsPlain(ts) /\ ts.start > published
    THEN IF IsSome(updated)
         THEN IF ts.start > Unwrap(updated) THEN Some(ts.start) ELSE updated
         ELSE Some(ts.start)
    ELSE updated

RECURSIVE ScanStamps(_, _, _)
ScanStamps(stamps, published, updated) ==
    IF stamps = <<>> THEN updated
    ELSE ScanStamps(Tail(stamps), published,
                    RecordUpdated(updated, published, Head(stamps)))

\* the timestamps inside the LOGBOOK drawers directly under the section of h
LogbookStamps(org, h) ==
    LET cs == SectionChildren(org, h)
    IN  Flatten([k \in 1..Len(cs) |->
                    IF IsLogbook(org.hl[h].section[cs[k]])
                    THEN org.hl[h].section[cs[k]].stamps ELSE <<>>])

Notice(msg, subject) == [msg |-> msg, subject |-> subject]

Article(id, published, updated, title, o, h, subids) ==
    [id |-> id, published |-> published, updated |-> updated, title |-> title,
     org |-> o, headline |-> h, subids |-> subids]

Loaded(article, org, notes) == [article |-> article, org |-> org, notes |-> notes]

\* load_article on headline h of document o, whose arena is org
load_article(o, org, h) ==
    LET title == org.hl[h]
    IN  IF "blog" \notin title.tags THEN Loaded(None, org, <<>>)
        ELSE IF ~IsSome(title.sched) THEN Loaded(None, org, <<>>)
        ELSE IF ~IsPlain(Unwrap(title.sched))
        THEN Loaded(None, org, <<Notice("has blog tag, but not SCHEDULED", title.raw)>>)
        ELSE IF ~IsSome(get_id(title))
        THEN Loaded(None, org, <<Notice("has blog tag, but does not have ID", title.raw)>>)
        ELSE IF Unwrap(get_id(title)) = <<>>
        THEN Loaded(None, org, <<Notice("has blog tag, but ID is empty", title.raw)>>)
        ELSE LET published == Unwrap(title.sched).start
                 id == Unwrap(get_id(title))
                 subids == collect_ids(org, h)
                 updated == ScanStamps(LogbookStamps(org, h), published, None)
                 org1 == DetachLogbook(org, h)
                 org2 == DetachPrivate(org1, headlines(org1, h))
             IN  Loaded(Some(Article(id, published, updated, title.raw, o, h, subids)),
                        org2, <<>>)

-----------------------------------------------------------------------------
(* Article ordering and the Site                                           *)

YearOf(t) == 2020 + (t - 1) \div InstantsPerYear

\* id_to_path: "articles/{last char of id}/{id}.html"
id_to_path(id) ==
    <<"a", "r", "t", "i", "c", "l", "e", "s", "/">> \o <<id[Len(id)]>> \o <<"/">>
        \o id \o <<".", "h", "t", "m", "l">>

\* impl PartialEq for Article
ArticleEq(a, b) == a.id = b.id

Sign(n) == IF n < 0 THEN -1 ELSE IF n > 0 THEN 1 ELSE 0

\* impl Ord for Article
ArticleCmp(a, b) ==
    IF a.published # b.published
    THEN Sign(a.published - b.published)
    ELSE StrCmp(a.id, b.id)

\* BTreeSet::insert on a set kept as its ascending sequence: an element that
\* compares Equal to one already present is not inserted
BTreeSetInsert(set, a) ==
    IF \E i \in 1..Len(set) : ArticleCmp(set[i], a) = 0 THEN set
    ELSE LET n == Cardinality({i \in 1..Len(set) : ArticleCmp(set[i], a) < 0})
         IN  SubSeq(set, 1, n) \o <<a>> \o SubSeq(set, n + 1, Len(set))

\* BTreeMap::insert
MapInsert(map, k, v) ==
    [x \in DOMAIN map \cup {k} |-> IF x = k THEN v ELSE map[x]]

RECURSIVE MapInsertAll(_, _, _)
MapInsertAll(map, ks, v) ==
    IF ks = <<>> THEN map
    ELSE MapInsertAll(MapInsert(map, Head(ks), v), Tail(ks), v)

EmptyMap == [x \in {} |-> 0]

\* a.updated.unwrap_or(a.published)
Effective(a) == UnwrapOr(a.updated, a.published)

\* faulty variant: the latest Article always sets last_update
NewLastUpdateOverwrites(last, article) == Some(Effective(article))

\* the update of Site.last_update for one Article
NewLastUpdate(last, article) ==
    LET updated == Effective(article)
    IN  IF IsSome(last)
        THEN IF updated > Unwrap(last) THEN Some(updated) ELSE last
        ELSE Some(updated)

\* the update of Site.index for one Article
NewIndex(idx, article) ==
    LET year == YearOf(article.published)
    IN  IF year \in DOMAIN idx
        THEN [idx EXCEPT ![year] = BTreeSetInsert(idx[year], article)]
        ELSE MapInsert(idx, year, BTreeSetInsert(<<>>, article))

-----------------------------------------------------------------------------
(* Rendering: ImoHtmlHandler and write_headline_html                       *)
(*                                                                         *)
(* Rendered HTML is a sequence of tokens.  `node` names the document node  *)
(* whose text the token carries: <<o, h>> the title of headline h of       *)
(* document o, <<o, h, j>> element j of its section.                       *)

Tok(kind, node, level, id, href, text) ==
    [kind |-> kind, node |-> node, level |-> level, id |-> id,
     href |-> href, text |-> text]

Rendered(out, notes) == [out |-> out, notes |-> notes]

EscapeChar(c) ==
    IF c = "&" THEN <<"&", "a", "m", "p", ";">>
    ELSE IF c = "<" THEN <<"&", "l", "t", ";">>
    ELSE IF c = ">" THEN <<"&", "g", "t", ";">>
    ELSE IF c = "\"" THEN <<"&", "q", "u", "o", "t", ";">>
    ELSE <<c>>

\* orgize's HtmlEscape
HtmlEscape(s) == Flatten([i \in 1..Len(s) |-> EscapeChar(s[i])])

\* faulty variant: the level is written as it comes, above 6 too
StartTitleAnyLevel(node, level, title) ==
    Tok("h", node, level,
        IF IsSome(get_id(title)) THEN Some(HtmlEscape(Unwrap(get_id(title)))) ELSE None,
        <<>>, <<>>)

\* "<h{level} id=...>" of ImoHtmlHandler::start for a Title
StartTitle(node, level, title) ==
    Tok("h", node, IF level <= 6 THEN level ELSE 6,
        IF IsSome(get_id(title)) THEN Some(HtmlEscape(Unwrap(get_id(title)))) ELSE None,
        <<>>, <<>>)

\* ImoHtmlHandler::end for a Title: the inner handler's "</h{level}>"
EndTitle(node, level) ==
    Tok("/h", node, IF level <= 6 THEN level ELSE 6, None, <<>>, <<>>)

IdPrefix == <<"i", "d", ":">>
FilePrefix == <<"f", "i", "l", "e", ":">>

IsAlpha(c) == CharCode(c) >= CharCode("a")

\* Url::parse(path) fails with ParseError::RelativeUrlWithoutBase: the path
\* does not start with a scheme (letters, then ':')
RelativeUrlWithoutBase(path) ==
    ~ \E n \in 1..Len(path) :
        /\ path[n] = ":"
        /\ n > 1
        /\ \A k \in 1..(n - 1) : IsAlpha(path[k])

\* path.rsplit("/").next(): what follows the last '/'
LastSegment(path) ==
    LET slashes == {i \in 1..Len(path) : path[i] = "/"}
    IN  IF slashes = {} THEN path
        ELSE Skip(path, CHOOSE i \in slashes : \A j \in slashes : j <= i)

ImageExts == {<<"j", "p", "e", "g">>, <<"j", "p", "g">>, <<"p", "n", "g">>,
              <<"s", "v", "g">>}

\* may_filename.rsplit_once("."): the extension is one of the image ones
IsImage(path) ==
    LET name == LastSegment(path)
        dots == {i \in 1..Len(name) : name[i] = "."}
    IN  /\ dots # {}
        /\ Skip(name, CHOOSE i \in dots : \A j \in dots : j <= i) \in ImageExts

\* link.desc.as_ref().unwrap_or(&link.path)
LinkText(link) == UnwrapOr(link.desc, link.path)

\* faulty variant: the sub-ids are looked up before the Articles
StartIdLinkSubidFirst(arts, subids, base, node, link) ==
    LET id == Skip(link.path, 3)
    IN  IF id \in DOMAIN subids
        THEN Rendered(<<Tok("a", node, 0, None,
                            HtmlEscape(base) \o HtmlEscape(id_to_path(subids[id]))
                                \o <<"#">> \o HtmlEscape(id),
                            HtmlEscape(LinkText(link)))>>, <<>>)
        ELSE IF id \in DOMAIN arts
        THEN Rendered(<<Tok("a", node, 0, None,
                            HtmlEscape(base) \o HtmlEscape(id_to_path(id)),
                            HtmlEscape(LinkText(link)))>>, <<>>)
        ELSE Rendered(<<Tok("text", node, 0, None, <<>>, HtmlEscape(LinkText(link)))>>,
                      <<Notice("id not found", id)>>)

\* the `id:` branch of ImoHtmlHandler::start
StartIdLink(arts, subids, base, node, link) ==
    LET id == Skip(link.path, 3)
    IN  IF id \in DOMAIN arts
        THEN Rendered(<<Tok("a", node, 0, None,
                            HtmlEscape(base) \o HtmlEscape(id_to_path(id)),
                            HtmlEscape(LinkText(link)))>>, <<>>)
        ELSE IF id \in DOMAIN subids
        THEN Rendered(<<Tok("a", node, 0, None,
                            HtmlEscape(base) \o HtmlEscape(id_to_path(subids[id]))
                                \o <<"#">> \o HtmlEscape(id),
                            HtmlEscape(LinkText(link)))>>, <<>>)
        ELSE Rendered(<<Tok("text", node, 0, None, <<>>, HtmlEscape(LinkText(link)))>>,
                      <<Notice("id not found", id)>>)

\* the last branch of ImoHtmlHandler::start for a Link
StartPlainLink(base, node, link) ==
    LET path == IF RelativeUrlWithoutBase(link.path)
                THEN base \o link.path ELSE link.path
    IN  IF IsImage(path)
        THEN Rendered(<<Tok("thumbnail", node, 0, None, HtmlEscape(path), <<>>)>>, <<>>)
        ELSE Rendered(<<Tok("a", node, 0, None, HtmlEscape(path),
                            HtmlEscape(UnwrapOr(link.desc, path)))>>, <<>>)

\* faulty variant: after the "file:" prefix is removed the link goes to the
\* last branch, whatever the rest starts with
StartLinkFileToLastBranch(arts, subids, base, node, link) ==
    IF StartsWith(link.path, IdPrefix)
    THEN StartIdLink(arts, subids, base, node, link)
    ELSE IF StartsWith(link.path, FilePrefix)
    THEN StartPlainLink(base, node, [link EXCEPT !.path = Skip(link.path, 5)])
    ELSE StartPlainLink(base, node, link)

RECURSIVE StartLink(_, _, _, _, _)
\* ImoHtmlHandler::start for a Link
StartLink(arts, subids, base, node, link) ==
    IF StartsWith(link.path, IdPrefix)
    THEN StartIdLink(arts, subids, base, node, link)
    ELSE IF StartsWith(link.path, FilePrefix)
    THEN StartLink(arts, subids, base, node, [link EXCEPT !.path = Skip(link.path, 5)])
    ELSE StartPlainLink(base, node, link)

\* one element of a section, through the handler
StartElement(arts, subids, base, node, elem) ==
    IF elem.kind = "Link" THEN StartLink(arts, subids, base, node, elem)
    ELSE Rendered(<<Tok(elem.kind, node, 0, None, <<>>, <<>>)>>, <<>>)

RECURSIVE JoinRendered(_)
JoinRendered(rs) ==
    IF rs = <<>> THEN Rendered(<<>>, <<>>)
    ELSE LET rest == JoinRendered(Tail(rs))
         IN  Rendered(Head(rs).out \o rest.out, Head(rs).notes \o rest.notes)

RECURSIVE Traverse(_, _, _, _, _, _, _)
\* the traversal of write_headline_html below node h, for the Article whose
\* headline has level root_level
Traverse(arts, subids, base, o, org, h, root_level) ==
    LET title == org.hl[h]
        level == 2 + title.level - root_level
        cs == SectionChildren(org, h)
        ch == Children(org, h)
    IN  JoinRendered(
            <<Rendered(<<StartTitle(<<o, h>>, level, title),
                         Tok("text", <<o, h>>, 0, None, <<>>, title.raw),
                         EndTitle(<<o, h>>, level)>>, <<>>)>>
            \o [k \in 1..Len(cs) |->
                   StartElement(arts, subids, base, <<o, h, cs[k]>>,
                                title.section[cs[k]])]
            \o [k \in 1..Len(ch) |->
                   Traverse(arts, subids, base, o, org, ch[k], root_level)])

\* Article::html
ArticleHtml(arts, subids, base, os, article) ==
    Traverse(arts, subids, base, article.org, os[article.org], article.headline,
             os[article.org].hl[article.headline].level)

-----------------------------------------------------------------------------
(* main and generate                                                       *)

FEED_ENTRY_COUNT == 10

\* the base of article pages, and the site's URL (the base of feed entries)
PageBase == <<".", ".", "/", ".", ".", "/">>
SiteUrl == <<"h", ":", "/", "/", "s", "/">>

RECURSIVE SortIds(_)
\* the keys of a BTreeMap<Id, _>, ascending
SortIds(S) ==
    IF S = {} THEN <<>>
    ELSE LET m == CHOOSE x \in S : \A y \in S : StrCmp(x, y) <= 0
         IN  <<m>> \o SortIds(S \ {m})

Reverse(s) == [i \in 1..Len(s) |-> s[Len(s) + 1 - i]]

Take(s, n) == SubSeq(s, 1, IF Len(s) < n THEN Len(s) ELSE n)


\* site.articles.values(): the Articles in ascending order of Id
ArticleValues(arts) ==
    LET ks == SortIds(DOMAIN arts) IN [i \in 1..Len(ks) |-> arts[ks[i]]]

\* faulty variant: the buckets are not reversed
IndexYearsNewestFirst(idx) ==
    LET ys == Reverse(SetToSortedSeq(DOMAIN idx))
    IN  Flatten([i \in 1..Len(ys) |-> idx[ys[i]]])

\* site.index.values().rev().flat_map(|articles| articles.iter().rev())
IndexNewestFirst(idx) ==
    LET ys == Reverse(SetToSortedSeq(DOMAIN idx))
    IN  Flatten([i \in 1..Len(ys) |-> Reverse(idx[ys[i]])])

\* the Articles of the feed: .take(FEED_ENTRY_COUNT)
FeedArticles(idx) == Take(IndexNewestFirst(idx), FEED_ENTRY_COUNT)

RECURSIVE MaxEffective(_)
\* articles.iter().map(|a| a.updated.unwrap_or(a.published)).max()
MaxEffective(as) ==
    IF Len(as) = 1 THEN Effective(as[1])
    ELSE Max(Effective(Head(as)), MaxEffective(Tail(as)))

Written(kind, path, content, mtime) ==
    [kind |-> kind, path |-> path, content |-> content, mtime |-> mtime]

\* index.html, then one archive page per year but the latest, latest first
IndexPages(idx, last) ==
    LET ys == Reverse(SetToSortedSeq(DOMAIN idx))
    IN  <<Written("index", <<>>, <<>>, last)>>
        \o [i \in 1..(Len(ys) - 1) |->
               Written("archive", <<ys[i + 1]>>, <<>>, Some(MaxEffective(idx[ys[i + 1]])))]

Init ==
    /\ feed \in BOOLEAN
    /\ index = EmptyMap
    /\ articles = EmptyMap
    /\ last_update = None
    /\ subid_to_articleid_map = EmptyMap
    /\ orgs = <<>>
    /\ queue = <<>>
    /\ pc = "load"
    /\ notices = <<>>
    /\ ingested = <<>>
    /\ pending = <<>>
    /\ handler_base = <<>>
    /\ output = <<>>
    /\ recent_entries = <<>>

genVars == <<pending, handler_base, output, recent_entries>>
siteVars == <<index, articles, last_update, subid_to_articleid_map, ingested>>

\* main: the next file is read and Site::load_org_data parses it
LoadOrgData(data) ==
    /\ pc = "load"
    /\ queue = <<>>
    /\ Len(orgs) < MaxDocs
    /\ orgs' = Append(orgs, Parse(data))
    /\ queue' = OrgHeadlines(Parse(data))
    /\ UNCHANGED <<feed, pc, notices>>
    /\ UNCHANGED siteVars
    /\ UNCHANGED genVars

\* Site::load_org_data: one turn of the loop over the document's headlines
LoadHeadline ==
    /\ pc = "load"
    /\ queue # <<>>
    /\ LET o == Len(orgs)
           r == load_article(o, orgs[o], Head(queue))
       IN  /\ orgs' = [orgs EXCEPT ![o] = r.org]
           /\ notices' = notices \o r.notes
           /\ IF IsSome(r.article)
              THEN LET article == Unwrap(r.article)
                   IN  /\ last_update' = NewLastUpdate(last_update, article)
                       /\ articles' = MapInsert(articles, article.id, article)
                       /\ subid_to_articleid_map' =
                              MapInsertAll(subid_to_articleid_map, article.subids,
                                           article.id)
                       /\ index' = NewIndex(index, article)
                       /\ ingested' = Append(ingested, article)
              ELSE UNCHANGED siteVars
    /\ queue' = Tail(queue)
    /\ UNCHANGED <<feed, pc>>
    /\ UNCHANGED genVars

\* faulty variant: generate is entered from within the loop of
\* load_org_data, while headlines of the document are still to be extracted
GenerateIndexWhileLoading ==
    /\ pc = "load"
    /\ Len(orgs) >= 1
    /\ output' = output \o IndexPages(index, last_update)
    /\ handler_base' = PageBase
    /\ pending' = ArticleValues(articles)
    /\ pc' = "articles"
    /\ UNCHANGED <<feed, orgs, queue, notices, recent_entries>>
    /\ UNCHANGED siteVars

\* generate: index.html and the archive pages; the handler is created
GenerateIndex ==
    /\ pc = "load"
    /\ queue = <<>>
    /\ Len(orgs) >= 1
    /\ output' = output \o IndexPages(index, last_update)
    /\ handler_base' = PageBase
    /\ pending' = ArticleValues(articles)
    /\ pc' = "articles"
    /\ UNCHANGED <<feed, orgs, queue, notices, recent_entries>>
    /\ UNCHANGED siteVars

\* generate: the page of one Article.  (generate also renders site.drafts
\* when site.include_draft is set; the Site of site.rs has neither field, so
\* no draft is rendered here.)
GenerateArticle ==
    /\ pc = "articles"
    /\ pending # <<>>
    /\ LET article == Head(pending)
           r == ArticleHtml(articles, subid_to_articleid_map, handler_base, orgs, article)
       IN  /\ output' = Append(output,
                  Written("article", id_to_path(article.id), r.out,
                          Some(Effective(article))))
           /\ notices' = notices \o r.notes
    /\ pending' = Tail(pending)
    /\ UNCHANGED <<feed, orgs, queue, pc, handler_base, recent_entries>>
    /\ UNCHANGED siteVars

\* generate: site.feed is set; the handler's base becomes the site's URL
BeginFeed ==
    /\ pc = "articles"
    /\ pending = <<>>
    /\ feed
    /\ handler_base' = SiteUrl
    /\ pending' = FeedArticles(index)
    /\ pc' = "feed"
    /\ UNCHANGED <<feed, orgs, queue, notices, output, recent_entries>>
    /\ UNCHANGED siteVars

\* generate: site.feed is not set
SkipFeed ==
    /\ pc = "articles"
    /\ pending = <<>>
    /\ ~feed
    /\ pc' = "done"
    /\ UNCHANGED <<feed, orgs, queue, notices>>
    /\ UNCHANGED siteVars
    /\ UNCHANGED genVars

\* generate: one entry of the feed
GenerateFeedEntry ==
    /\ pc = "feed"
    /\ pending # <<>>
    /\ LET article == Head(pending)
           r == ArticleHtml(articles, subid_to_articleid_map, handler_base, orgs, article)
       IN  /\ recent_entries' = Append(recent_entries,
                  [url |-> SiteUrl \o id_to_path(article.id),
                   title |-> article.title,
                   published |-> article.published,
                   updated |-> Effective(article),
                   content |-> r.out,
                   article |-> article])
           /\ notices' = notices \o r.notes
    /\ pending' = Tail(pending)
    /\ UNCHANGED <<feed, orgs, queue, pc, handler_base, output>>
    /\ UNCHANGED siteVars

\* generate: atom.xml is written
GenerateFeed ==
    /\ pc = "feed"
    /\ pending = <<>>
    /\ output' = Append(output, Written("feed", <<>>, recent_entries, last_update))
    /\ pc' = "done"
    /\ UNCHANGED <<feed, orgs, queue, notices, pending, handler_base, recent_entries>>
    /\ UNCHANGED siteVars

-----------------------------------------------------------------------------
(* The documents given to the program                                      *)

IdA == <<"a">>
IdB == <<"b">>
IdBA == <<"b", "a">>
IdP == <<"p">>
IdQ == <<"q">>

Blog == {"blog"}

Logbook(stamps) == Drawer("LOGBOOK", stamps)
Notes(stamps) == Drawer("NOTES", stamps)

\* a headline that qualifies as an Article
Qualifying(parent, level, raw, tags, t, id, section) ==
    HeadlineData(parent, level, raw, tags, Some(Plain("Active", t)), Some(id), section)

\* an Article A with a headline P below it that may be tagged blog, PRIVATE
\* or both, and below P possibly a headline Q that may be tagged blog
PrivateDocs ==
    { <<Qualifying(0, 1, <<"x">>, Blog, 1, IdA, <<>>),
        Qualifying(1, 2, <<"x", "x">>, ptags, 1, IdP, <<>>)>> \o q :
          ptags \in SUBSET {"blog", "PRIVATE"},
          q \in {<<>>} \cup
                { <<Qualifying(2, 3, <<"x", "x", "x">>, qtags, 1, IdQ, <<>>)>> :
                      qtags \in {{}, Blog, {"PRIVATE"}} } }

\* an Article with LOGBOOK drawers in its own section and, below it, a
\* headline with a LOGBOOK drawer of its own that may be tagged blog
DrawerDocs ==
    { <<Qualifying(0, 1, <<"x">>, Blog, 1, IdA, sec)>> \o n :
          sec \in {<<Logbook(<<>>)>>,
                   <<Logbook(<<>>), Notes(<<>>), Logbook(<<Plain("Inactive", 2)>>)>>},
          n \in {<<>>} \cup
                { <<Qualifying(1, 2, <<"x", "x">>, ntags, 1, IdB, <<Logbook(<<>>)>>)>> :
                      ntags \in {{}, Blog} } }

Docs == PrivateDocs \cup DrawerDocs

Pipeline ==
    \/ LoadHeadline
    \/ GenerateIndex
    \/ GenerateArticle
    \/ BeginFeed
    \/ SkipFeed
    \/ GenerateFeedEntry
    \/ GenerateFeed

Next ==
    \/ \E data \in Docs : LoadOrgData(data)
    \/ Pipeline

Spec == Init /\ [][Next]_vars

\* one Article per headline: its Id, its SCHEDULED time and at most one
\* timestamp in a LOGBOOK drawer; alone in its document, or two in a row
SiteDocs ==
    { <<Qualifying(0, 1, <<"x">>, Blog, t, IdA, sec)>> :
          t \in Times,
          sec \in {<<>>} \cup {<<Logbook(<<Plain("Inactive", u)>>)>> : u \in Times} }
    \cup
    { <<Qualifying(0, 1, <<"x">>, Blog, t, IdB, <<>>)>> : t \in Times }
    \cup
    { <<Qualifying(0, 1, <<"x">>, Blog, t1, IdA, <<>>),
        Qualifying(0, 1, <<"x", "x">>, Blog, t2, IdA, <<>>)>> :
          t1 \in Times, t2 \in Times }

LoadOnly == LoadHeadline

NextSite ==
    \/ \E data \in SiteDocs : LoadOrgData(data)
    \/ LoadOnly

\* the load phase alone, on documents of plain Articles
SpecSite == Init /\ [][NextSite]_vars

\* the shapes of a SCHEDULED entry: none, plain, or not plain
Schedules ==
    {None,
     Some(Plain("Active", 1)),
     Some(Plain("Inactive", 1)),
     Some([Plain("Active", 1) EXCEPT !.repeater = TRUE]),
     Some([Plain("Inactive", 1) EXCEPT !.delay = TRUE]),
     Some(Plain("ActiveRange", 1))}

\* a first headline of any tag, schedule and ID, followed by a headline that
\* qualifies
ExtractDocs ==
    { <<HeadlineData(0, 1, <<"x">>, tags, sched, id, <<>>),
        Qualifying(0, 1, <<"x", "x">>, Blog, 1, IdB, <<>>)>> :
          tags \in {{}, Blog}, sched \in Schedules,
          id \in {None, Some(<<>>), Some(IdA)} }

NextExtract ==
    \/ \E data \in ExtractDocs : LoadOrgData(data)
    \/ LoadOnly

\* the load phase alone, on headlines of every tag, schedule and ID
SpecExtract == Init /\ [][NextExtract]_vars

\* the timestamps of a LOGBOOK drawer: none, one, two in descending order,
\* or one with a repeater
StampLists ==
    {<<>>, <<[Plain("Inactive", MaxTime) EXCEPT !.repeater = TRUE]>>}
        \cup {<<Plain("Inactive", u)>> : u \in Times}
        \cup {<<Plain("Active", MaxTime), Plain("Inactive", v)>> : v \in 1..(MaxTime - 1)}

LogbookSections ==
    {<<>>, <<Notes(<<Plain("Inactive", MaxTime)>>)>>}
        \cup {<<Logbook(sl)>> : sl \in StampLists}
        \cup {<<Logbook(<<Plain("Inactive", MaxTime)>>), Notes(<<Plain("Inactive", MaxTime)>>),
                Logbook(<<Plain("Inactive", 1)>>)>>}

\* an Article with drawers in its own section, or with a LOGBOOK drawer in
\* the section of a headline below it
LogbookDocs ==
    { <<Qualifying(0, 1, <<"x">>, Blog, t, IdA, sec)>> :
          t \in Times, sec \in LogbookSections }
    \cup
    { <<Qualifying(0, 1, <<"x">>, Blog, 1, IdA, sec),
        HeadlineData(1, 2, <<"x", "x">>, {}, None, None,
                     <<Logbook(<<Plain("Inactive", MaxTime)>>)>>)>> :
          sec \in {<<>>, <<Logbook(<<Plain("Inactive", 2)>>)>>} }

NextLogbook ==
    \/ \E data \in LogbookDocs : LoadOrgData(data)
    \/ LoadOnly

\* the load phase alone, on Articles with drawers
SpecLogbook == Init /\ [][NextLogbook]_vars

IdAmp == <<"a", "&">>
IdX == <<"x">>

\* Article ba with one id: link in its section, and below it a headline that
\* has an ID, may be tagged blog, and links to an id no headline has
LinkDocs ==
    { <<Qualifying(0, 1, <<"x">>, Blog, 1, IdBA, <<link>>),
        Qualifying(1, 2, <<"x", "x">>, c[1], 1, c[2], <<Link(IdPrefix \o IdX, None)>>)>> :
          link \in {Link(IdPrefix \o IdBA, None),
                    Link(IdPrefix \o IdP, Some(<<"d", "<">>)),
                    Link(IdPrefix \o IdAmp, None),
                    Link(IdPrefix \o IdX, Some(<<"d">>))},
          c \in {<<{}, IdP>>, <<Blog, IdP>>, <<{}, IdAmp>>} }

NextLink ==
    \/ \E data \in LinkDocs : LoadOrgData(data)
    \/ Pipeline

\* the whole run, on documents with id: links
SpecLink == Init /\ [][NextLink]_vars

APng == <<"a", ".", "p", "n", "g">>

\* link targets with a "file:" prefix: a relative image, a relative file that
\* is no image, a URL with a scheme, an id, a second "file:" prefix, nothing
\* at all, an image name used as a directory; and an image without prefix
FileTargets ==
    {FilePrefix \o APng,
     FilePrefix \o <<"a", ".", "x">>,
     FilePrefix \o <<"h", ":", "/">> \o APng,
     FilePrefix \o IdPrefix \o IdA,
     FilePrefix \o IdPrefix \o IdX,
     FilePrefix \o FilePrefix \o APng,
     FilePrefix,
     FilePrefix \o APng \o <<"/", "b">>,
     APng}

\* Article a with one link in its section, with or without a description
FileDocs ==
    { <<Qualifying(0, 1, <<"x">>, Blog, 1, IdA, <<Link(t, None)>>)>> : t \in FileTargets }
    \cup { <<Qualifying(0, 1, <<"x">>, Blog, 1, IdA,
                        <<Link(FilePrefix \o <<"a", ".", "x">>, Some(<<"d", "&">>))>>)>> }

NextFile ==
    \/ \E data \in FileDocs : LoadOrgData(data)
    \/ Pipeline

\* the whole run, on documents with file: links
SpecFile == Init /\ [][NextFile]_vars

\* Article a at level 1 or 2; below it a headline B one or five levels
\* deeper, with or without an ID, that may be an Article itself; below B a
\* headline one level deeper whose ID has a character that HTML escapes
HeadingDocs ==
    { <<Qualifying(0, la, <<"x">>, Blog, 1, IdA, <<>>),
        HeadlineData(1, la + d, <<"x", "x">>, b[1], b[2], b[3], <<>>),
        HeadlineData(2, la + d + 1, <<"x", "x", "x">>, {}, None, Some(IdAmp), <<>>)>> :
          la \in {1, 2}, d \in {1, 5},
          b \in {<<Blog, Some(Plain("Active", 1)), Some(IdB)>>,
                 <<{}, None, Some(IdB)>>,
                 <<{}, None, None>>} }

NextHeading ==
    \/ \E data \in HeadingDocs : LoadOrgData(data)
    \/ Pipeline

\* the whole run, on documents with headlines at several depths
SpecHeading == Init /\ [][NextHeading]_vars

FeedIds == <<IdA, IdB, <<"c">>, <<"d">>, <<"e">>, <<"f">>, <<"g">>, <<"h">>,
             <<"i">>, <<"j">>, <<"l">>>>

\* n Articles in a row; the k-th was published first and may have been
\* updated last, the others were published later and never updated
FeedDoc(n, k, sec) ==
    [i \in 1..n |->
        Qualifying(0, 1, <<"x">>, Blog,
                   IF i = k THEN 1 ELSE IF i % 2 = 1 THEN 2 ELSE MaxTime,
                   FeedIds[i], IF i = k THEN sec ELSE <<>>)]

\* more Articles than the feed takes, or only two
FeedDocs ==
    { FeedDoc(n, k, sec) :
          n \in {2, Len(FeedIds)}, k \in {1, 2},
          sec \in {<<>>, <<Logbook(<<Plain("Inactive", MaxTime)>>)>>} }

NextFeed ==
    \/ \E data \in FeedDocs : LoadOrgData(data)
    \/ Pipeline

\* the whole run, on documents of many Articles
SpecFeed == Init /\ [][NextFeed]_vars

\* Articles with headlines below them that carry an ID: a chain A, B, P
\* where B may be tagged blog and P may be tagged PRIVATE or blog; two
\* Articles in a row, the second with an untagged headline below it; an
\* Article a or ba with an untagged headline p below it; Article a alone
SubidDocs ==
    { <<Qualifying(0, 1, <<"x">>, Blog, 1, IdA, <<>>),
        Qualifying(1, 2, <<"x", "x">>, btags, 1, IdB, <<>>),
        Qualifying(2, 3, <<"x", "x", "x">>, ptags, 1, IdP, <<>>)>> :
          btags \in {{}, Blog}, ptags \in {{}, {"PRIVATE"}, Blog} }
    \cup
    { <<Qualifying(0, 1, <<"x">>, Blog, 1, IdA, <<>>),
        Qualifying(0, 1, <<"x", "x">>, Blog, MaxTime, IdB, <<>>),
        HeadlineData(2, 2, <<"x", "x", "x">>, {}, None, Some(IdQ), <<>>)>> }
    \cup
    { <<Qualifying(0, 1, <<"x">>, Blog, 1, id, <<>>),
        HeadlineData(1, 2, <<"x", "x">>, {}, None, Some(IdP), <<>>)>> :
          id \in {IdA, IdBA} }
    \cup
    { <<Qualifying(0, 1, <<"x">>, Blog, 1, IdA, <<>>)>> }

NextSubid ==
    \/ \E data \in SubidDocs : LoadOrgData(data)
    \/ Pipeline

\* the whole run, on documents with sub-ids
SpecSubid == Init /\ [][NextSubid]_vars

-----------------------------------------------------------------------------
(* Vocabulary of the properties                                            *)

RECURSIVE AncestorsInDocument(_, _)
\* the headlines above h in the document as it was parsed
AncestorsInDocument(data, h) ==
    IF data[h].parent = 0 THEN {}
    ELSE {data[h].parent} \cup AncestorsInDocument(data, data[h].parent)

\* headline h of document o was extracted as an Article
Extracted(o, h) == \E i \in 1..Len(ingested) :
    ingested[i].org = o /\ ingested[i].headline = h

\* headline h of document o is tagged PRIVATE below an extracted Article, or
\* lies below such a headline
PrivateBelowArticle(o, h) ==
    LET data == orgs[o].hl
    IN  \E p \in {h} \cup AncestorsInDocument(data, h) :
            /\ "PRIVATE" \in data[p].tags
            /\ \E a \in AncestorsInDocument(data, p) : Extracted(o, a)

\* every rendered content so far: of the article pages and of the feed entries
RenderedContents ==
    {output[i].content : i \in {k \in 1..Len(output) : output[k].kind = "article"}}
        \cup {recent_entries[i].content : i \in 1..Len(recent_entries)}

\* C3: no rendered article page or feed entry holds the title or the body of
\* a headline that is tagged PRIVATE below an extracted Article, or of a
\* headline below such a headline.
C3_PrivateAbsentFromRendered ==
    \A c \in RenderedContents : \A k \in 1..Len(c) :
        ~PrivateBelowArticle(c[k].node[1], c[k].node[2])


\* Article a is an element of the bucket of year y
InBucket(y, a) == y \in DOMAIN index /\ \E i \in 1..Len(index[y]) : index[y][i] = a

\* the last Article ingested with this id
LastIngested(id) ==
    ingested[CHOOSE i \in 1..Len(ingested) :
                /\ ingested[i].id = id
                /\ \A j \in (i + 1)..Len(ingested) : ingested[j].id # id]

\* C1: every Article of the by-id map is in exactly one year bucket, the one
\* of the year of its published time, and every element of a bucket is the
\* Article the by-id map holds for its id.
C1_ByIdMatchesByYear ==
    /\ \A id \in DOMAIN articles : \A y \in DOMAIN index \cup {YearOf(articles[id].published)} :
           InBucket(y, articles[id]) <=> y = YearOf(articles[id].published)
    /\ \A y \in DOMAIN index : \A i \in 1..Len(index[y]) :
           /\ index[y][i].id \in DOMAIN articles
           /\ articles[index[y][i].id] = index[y][i]

\* C2: of the Articles ingested with one Id, the by-id map holds the last,
\* the bucket of its year holds it, and no bucket holds an earlier one.
C2_LaterReplacesEarlier ==
    \A i \in 1..Len(ingested) :
        LET a == ingested[i]
            last == LastIngested(a.id)
        IN  /\ articles[a.id] = last
            /\ InBucket(YearOf(last.published), last)
            /\ a # last => \A y \in DOMAIN index : ~InBucket(y, a)

\* C10: no bucket holds two elements with the same id, and a bucket iterates
\* in (published ascending, id ascending) order.
C10_BucketSetOrdered ==
    \A y \in DOMAIN index : \A i \in 1..Len(index[y]) : \A j \in (i + 1)..Len(index[y]) :
        /\ index[y][i].id # index[y][j].id
        /\ \/ index[y][i].published < index[y][j].published
           \/ /\ index[y][i].published = index[y][j].published
              /\ StrCmp(index[y][i].id, index[y][j].id) < 0

\* the greatest effective timestamp of the Articles ingested so far
MaxIngested ==
    CHOOSE m \in {Effective(ingested[i]) : i \in 1..Len(ingested)} :
        \A i \in 1..Len(ingested) : Effective(ingested[i]) <= m

LastUpdateIsMax ==
    IF ingested = <<>> THEN last_update = None
    ELSE last_update = Some(MaxIngested)

LastUpdateGrows ==
    /\ IsSome(last_update) => IsSome(last_update')
    /\ IsSome(last_update) => Unwrap(last_update') >= Unwrap(last_update)

\* C7: last_update is the greatest updated-or-published time of the Articles
\* ingested so far, None iff there is none, and no step decreases it.
C7_LastUpdateIsMax == [](LastUpdateIsMax) /\ [][LastUpdateGrows]_vars

\* an Article with an updated time was ingested, and a later Article with a
\* smaller effective time left last_update where it was
C7_Witness ==
    /\ Len(ingested) >= 2
    /\ \E i \in 1..(Len(ingested) - 1) :
           /\ IsSome(ingested[i].updated)
           /\ last_update = ingested[i].updated
           /\ Effective(ingested[Len(ingested)]) < Unwrap(last_update)


\* the title of the headline the loop of load_org_data visits next
NextTitle == orgs[Len(orgs)].hl[Head(queue)]

Tagged(title) == "blog" \in title.tags

PlainlyScheduled(title) ==
    /\ IsSome(title.sched)
    /\ Unwrap(title.sched).kind \in {"Active", "Inactive"}
    /\ ~Unwrap(title.sched).repeater
    /\ ~Unwrap(title.sched).delay

HasId(title) == IsSome(title.id) /\ Unwrap(title.id) # <<>>

\* how many diagnostics the claim gives the headline
ExpectedNotices(title) ==
    IF ~Tagged(title) \/ ~IsSome(title.sched) THEN 0
    ELSE IF ~PlainlyScheduled(title) THEN 1
    ELSE IF ~HasId(title) THEN 1
    ELSE 0

LoadArticleStep ==
    queue # <<>> =>
        /\ Len(ingested') = Len(ingested) +
               (IF Tagged(NextTitle) /\ PlainlyScheduled(NextTitle) /\ HasId(NextTitle)
                THEN 1 ELSE 0)
        /\ Len(ingested') > Len(ingested) =>
               /\ ingested'[Len(ingested')].org = Len(orgs)
               /\ ingested'[Len(ingested')].headline = Head(queue)
        /\ Len(notices') = Len(notices) + ExpectedNotices(NextTitle)
        /\ queue' = Tail(queue)
        /\ pc' = "load"

\* C5: a headline yields an Article iff it is tagged blog, has a plain
\* SCHEDULED timestamp and a non-empty ID; it emits one diagnostic when
\* tagged with a schedule that is not plain, one when tagged, plainly
\* scheduled and without a non-empty ID, and none otherwise; the loop then
\* goes on with the next headline.
C5_ArticleIffQualifies == [][LoadArticleStep]_vars

\* a candidate was discarded with a diagnostic and the headline after it
\* was extracted
C5_Witness ==
    /\ Len(orgs) = 1
    /\ queue = <<>>
    /\ Len(notices) = 1
    /\ Len(ingested) = 1
    /\ ingested[1].headline = 2

\* the plain timestamps later than `published` in the LOGBOOK drawers
\* directly under the section of the headline of Article a
LaterLogbookTimes(a) ==
    LET sec == orgs[a.org].hl[a.headline].section
        plainLater(ts) ==
            /\ ts.kind \in {"Active", "Inactive"}
            /\ ~ts.repeater
            /\ ~ts.delay
            /\ ts.start > a.published
    IN  UNION { {sec[j].stamps[k].start :
                    k \in {n \in 1..Len(sec[j].stamps) : plainLater(sec[j].stamps[n])}} :
                j \in {m \in 1..Len(sec) :
                          sec[m].kind = "Drawer" /\ sec[m].name = "LOGBOOK"} }

\* C8: updated is absent or later than published; it is the latest plain
\* timestamp later than published of the LOGBOOK drawers directly under the
\* Article's own section, and absent when there is none.
C8_UpdatedIsLatestLogbookTime ==
    \A i \in 1..Len(ingested) :
        LET a == ingested[i]
            later == LaterLogbookTimes(a)
        IN  /\ IsSome(a.updated) => Unwrap(a.updated) > a.published
            /\ IF later = {} THEN a.updated = None
               ELSE /\ IsSome(a.updated)
                    /\ Unwrap(a.updated) \in later
                    /\ \A t \in later : t <= Unwrap(a.updated)

\* an Article whose LOGBOOK drawers hold a timestamp equal to published and,
\* in a drawer before that one, a later one, which became its updated time
C8_Witness ==
    \E i \in 1..Len(ingested) :
        LET a == ingested[i]
            sec == orgs[a.org].hl[a.headline].section
        IN  /\ Len(sec) = 3
            /\ sec[1].stamps[1].start = MaxTime
            /\ sec[3].stamps[1].start = a.published
            /\ a.updated = Some(MaxTime)


\* the token is the rendering of a LOGBOOK drawer
IsLogbookToken(tok) ==
    /\ tok.kind = "Drawer"
    /\ orgs[tok.node[1]].hl[tok.node[2]].section[tok.node[3]].name = "LOGBOOK"

RenderedUnderBase ==
    {<<"page", i, PageBase, output[i].content>> :
        i \in {k \in 1..Len(output) : output[k].kind = "article"}}
    \cup {<<"entry", i, SiteUrl, recent_entries[i].content>> :
             i \in 1..Len(recent_entries)}

\* the link element a token was rendered from, if it is one
IsIdLinkToken(tok) ==
    /\ Len(tok.node) = 3
    /\ orgs[tok.node[1]].hl[tok.node[2]].section[tok.node[3]].kind = "Link"
    /\ StartsWith(orgs[tok.node[1]].hl[tok.node[2]].section[tok.node[3]].path, IdPrefix)

LinkOf(tok) == orgs[tok.node[1]].hl[tok.node[2]].section[tok.node[3]]

\* the id: links rendered so far that matched neither an Article nor a sub-id
UnresolvedRendered ==
    UNION { {<<r[1], r[2], k>> :
                k \in {n \in 1..Len(r[4]) :
                    /\ IsIdLinkToken(r[4][n])
                    /\ Skip(LinkOf(r[4][n]).path, 3) \notin DOMAIN articles
                    /\ Skip(LinkOf(r[4][n]).path, 3) \notin DOMAIN subid_to_articleid_map}} :
            r \in RenderedUnderBase }

\* what the claim gives as the output of one id: link
IdLinkAsClaimed(tok, base) ==
    LET link == LinkOf(tok)
        X == Skip(link.path, 3)
        shown == HtmlEscape(IF link.desc = None THEN link.path ELSE link.desc[1])
    IN  IF X \in DOMAIN articles
        THEN /\ tok.kind = "a"
             /\ tok.href = HtmlEscape(base \o id_to_path(X))
             /\ tok.text = shown
        ELSE IF X \in DOMAIN subid_to_articleid_map
        THEN /\ tok.kind = "a"
             /\ tok.href = HtmlEscape(base \o id_to_path(subid_to_articleid_map[X])
                                          \o <<"#">> \o X)
             /\ tok.text = shown
        ELSE /\ tok.kind = "text"
             /\ tok.href = <<>>
             /\ tok.text = shown

\* C6: an id:X link is rendered as an anchor to base + path(X) without a
\* fragment when X is the id of an Article (sub-id or not), else as an anchor
\* to base + path(owner) + "#" + X when X is a sub-id, else as its display
\* text alone with one diagnostic per resolution.
C6_IdLinkResolution ==
    /\ \A r \in RenderedUnderBase : \A k \in 1..Len(r[4]) :
           IsIdLinkToken(r[4][k]) => IdLinkAsClaimed(r[4][k], r[3])
    /\ Cardinality(UnresolvedRendered) =
           Cardinality({n \in 1..Len(notices) : notices[n].msg = "id not found"})

\* the run is over; it rendered a link to an id that is an Article and a
\* sub-id at once, a link to an id that is a sub-id only, and a link to an id
\* that is neither
C6_Witness ==
    /\ pc = "done"
    /\ UnresolvedRendered # {}
    /\ \E r \in RenderedUnderBase : \E k \in 1..Len(r[4]) :
           /\ IsIdLinkToken(r[4][k])
           /\ Skip(LinkOf(r[4][k]).path, 3) \in DOMAIN articles
           /\ Skip(LinkOf(r[4][k]).path, 3) \in DOMAIN subid_to_articleid_map
    /\ \E r \in RenderedUnderBase : \E k \in 1..Len(r[4]) :
           /\ IsIdLinkToken(r[4][k])
           /\ Skip(LinkOf(r[4][k]).path, 3) \notin DOMAIN articles
           /\ Skip(LinkOf(r[4][k]).path, 3) \in DOMAIN subid_to_articleid_map


\* the Articles of the index, of every bucket
Indexed == UNION {Range(index[y]) : y \in DOMAIN index}

FeedArticlesSoFar == {recent_entries[i].article : i \in 1..Len(recent_entries)}

FeedComplete == pc = "done" /\ feed

\* C9 as claimed: the entries of the feed are in non-increasing order of
\* updated-or-published time, and no Article left out of the feed has a
\* later one than an Article in it.
C9_FeedByEffectiveTime ==
    /\ \A i \in 1..Len(recent_entries) : \A j \in (i + 1)..Len(recent_entries) :
           Effective(recent_entries[i].article) >= Effective(recent_entries[j].article)
    /\ FeedComplete =>
           \A a \in Indexed \ FeedArticlesSoFar : \A e \in FeedArticlesSoFar :
               Effective(a) <= Effective(e)

\* C9 (amended): the entries of the feed are in descending order of published
\* time, then of id, whatever their updated times; the feed holds
\* FEED_ENTRY_COUNT Articles of the index, or all when there are fewer; and
\* every Article of the index left out comes before every Article of the
\* feed in that order.
C9_FeedByPublishedTime ==
    /\ \A i \in 1..Len(recent_entries) : \A j \in (i + 1)..Len(recent_entries) :
           ArticleCmp(recent_entries[i].article, recent_entries[j].article) > 0
    /\ FeedArticlesSoFar \subseteq Indexed
    /\ FeedComplete =>
           /\ Len(recent_entries) =
                  IF Cardinality(Indexed) < FEED_ENTRY_COUNT
                  THEN Cardinality(Indexed) ELSE FEED_ENTRY_COUNT
           /\ \A a \in Indexed \ FeedArticlesSoFar : \A e \in FeedArticlesSoFar :
                  ArticleCmp(a, e) < 0

\* the feed is complete with FEED_ENTRY_COUNT entries, and an Article left
\* out was updated after every Article of the feed was
C9_Witness ==
    /\ FeedComplete
    /\ Len(recent_entries) = FEED_ENTRY_COUNT
    /\ \E a \in Indexed \ FeedArticlesSoFar : \A e \in FeedArticlesSoFar :
           Effective(a) >= Effective(e) /\ IsSome(a.updated)


\* the ID properties of the headlines below h in the document as it was
\* parsed, in document order
IdsBelowInDocument(o, h) ==
    LET data == orgs[o].hl
        below == SetToSortedSeq({i \in 1..Len(data) : h \in AncestorsInDocument(data, i)})
    IN  Flatten([k \in 1..Len(below) |-> data[below[k]].id])

\* the Articles ingested so far that own sub-id s, by their position
OwnersOf(s) ==
    {i \in 1..Len(ingested) :
        s \in Range(IdsBelowInDocument(ingested[i].org, ingested[i].headline))}

\* C11: the subids of an Article are the ID properties of all the headlines
\* below it in the document, at any depth, tagged or not, in document order;
\* and subid_to_articleid_map gives each of them the id of the Article
\* ingested last among those that have it.
C11_SubidsAreAllDescendantIds ==
    /\ \A i \in 1..Len(ingested) :
           ingested[i].subids =
               IdsBelowInDocument(ingested[i].org, ingested[i].headline)
    /\ \A s \in DOMAIN subid_to_articleid_map :
           /\ OwnersOf(s) # {}
           /\ subid_to_articleid_map[s] =
                  ingested[CHOOSE i \in OwnersOf(s) : \A j \in OwnersOf(s) : j <= i].id
    /\ \A i \in 1..Len(ingested) :
           \A s \in Range(IdsBelowInDocument(ingested[i].org, ingested[i].headline)) :
               s \in DOMAIN subid_to_articleid_map


\* the page written for the Article the by-id map holds for id a, if any
PagesOf(a) ==
    {output[i].content :
        i \in {k \in 1..Len(output) :
                  /\ output[k].kind = "article"
                  /\ output[k].path = id_to_path(a)}}

\* the content holds a heading whose id attribute is s
HasFragment(c, s) ==
    \E k \in 1..Len(c) : c[k].kind = "h" /\ c[k].id = Some(HtmlEscape(s))

\* C15: once the pages are written, every entry s -> a of
\* subid_to_articleid_map names an Article a of the by-id map that has s
\* among its subids and whose page holds a heading with id s.
C15_SubidLinksResolve ==
    pc = "done" =>
        \A s \in DOMAIN subid_to_articleid_map :
            LET a == subid_to_articleid_map[s]
            IN  /\ a \in DOMAIN articles
                /\ s \in Range(articles[a].subids)
                /\ PagesOf(a) # {}
                /\ \A c \in PagesOf(a) : HasFragment(c, s)


\* a render pass (Article::html for a page or for a feed entry) has begun
RenderBegun ==
    \/ \E k \in 1..Len(output) : output[k].kind = "article"
    \/ recent_entries # <<>>

\* extraction is complete: no headline is left to visit, and visiting any
\* headline again would detach nothing more
DetachmentsApplied ==
    /\ queue = <<>>
    /\ \A o \in 1..Len(orgs) :
           \A h \in Range(OrgHeadlines(orgs[o])) :
               load_article(o, orgs[o], h).org = orgs[o]

\* the nodes a rendering visited, in order
NodesRead(content) == [k \in 1..Len(content) |-> <<content[k].kind, content[k].node>>]

PageAndEntryReadSameTree ==
    \A k \in 1..Len(output), e \in 1..Len(recent_entries) :
        (/\ output[k].kind = "article"
         /\ recent_entries[e].article.id \in DOMAIN articles
         /\ recent_entries[e].article = articles[recent_entries[e].article.id]
         /\ output[k].path = id_to_path(recent_entries[e].article.id))
            => NodesRead(output[k].content) = NodesRead(recent_entries[e].content)

\* C12: no render pass begins before every document is extracted with all
\* its LOGBOOK and PRIVATE detachments applied; no document tree (and no
\* Article) changes once a render pass has begun; and the page and the feed
\* entry of the same Article visit the same nodes.
C12_RenderAfterExtraction ==
    /\ [](RenderBegun => DetachmentsApplied /\ PageAndEntryReadSameTree)
    /\ [][RenderBegun => (orgs' = orgs /\ articles' = articles /\ index' = index)]_vars

C12_Witness ==
    /\ pc = "done"
    /\ Len(orgs) = MaxDocs
    /\ \E o \in 1..Len(orgs) :
           \E h \in 1..Len(orgs[o].parent) : orgs[o].parent[h] = Detached
    /\ \E o \in 1..Len(orgs) :
           \E h \in 1..Len(orgs[o].attached) :
               \E j \in 1..Len(orgs[o].attached[h]) : ~orgs[o].attached[h][j]
    /\ \E k \in 1..Len(output), e \in 1..Len(recent_entries) :
           /\ output[k].kind = "article"
           /\ recent_entries[e].article = articles[recent_entries[e].article.id]
           /\ output[k].path = id_to_path(recent_entries[e].article.id)
           /\ Len(output[k].content) > 3


IsLinkToken(tok) ==
    /\ Len(tok.node) = 3
    /\ orgs[tok.node[1]].hl[tok.node[2]].section[tok.node[3]].kind = "Link"

IsFileLinkToken(tok) == IsLinkToken(tok) /\ StartsWith(LinkOf(tok).path, FilePrefix)

\* the output of the third rule for target T: base in front iff T is a
\* relative path without scheme; a thumbnail iff the extension is an image
\* one; else the base renderer's anchor to the same target
ByThirdRule(tok, base, T, desc) ==
    LET target == IF RelativeUrlWithoutBase(T) THEN base \o T ELSE T
    IN  /\ tok.href = HtmlEscape(target)
        /\ IF IsImage(target)
           THEN tok.kind = "thumbnail" /\ tok.text = <<>>
           ELSE tok.kind = "a" /\ tok.text = HtmlEscape(UnwrapOr(desc, target))

\* the output of the first rule for target T = id:X
ByFirstRule(tok, base, T, desc) ==
    LET X == Skip(T, 3)
        shown == HtmlEscape(UnwrapOr(desc, T))
    IN  IF X \in DOMAIN articles
        THEN /\ tok.kind = "a"
             /\ tok.href = HtmlEscape(base \o id_to_path(X))
             /\ tok.text = shown
        ELSE IF X \in DOMAIN subid_to_articleid_map
        THEN /\ tok.kind = "a"
             /\ tok.href = HtmlEscape(base \o id_to_path(subid_to_articleid_map[X])
                                          \o <<"#">> \o X)
             /\ tok.text = shown
        ELSE /\ tok.kind = "text"
             /\ tok.href = <<>>
             /\ tok.text = shown

RECURSIVE WithoutFilePrefixes(_)
\* the target with every leading "file:" removed
WithoutFilePrefixes(T) ==
    IF StartsWith(T, FilePrefix) THEN WithoutFilePrefixes(Skip(T, 5)) ELSE T

\* every link of a rendered headline gave exactly one piece of output
EveryLinkResolvedOnce ==
    \A r \in RenderedUnderBase : \A k \in 1..Len(r[4]) :
        r[4][k].kind = "h" =>
            \A j \in Range(SectionChildren(orgs[r[4][k].node[1]], r[4][k].node[2])) :
                Cardinality({n \in 1..Len(r[4]) :
                                r[4][n].node = r[4][k].node \o <<j>>}) = 1

\* C13 as claimed: a link to file:T is rendered by the third rule applied to
\* T, never as an id: link, and resolution ends for every target.
C13_FileByThirdRule ==
    /\ \A r \in RenderedUnderBase : \A k \in 1..Len(r[4]) :
           IsFileLinkToken(r[4][k]) =>
               ByThirdRule(r[4][k], r[3], Skip(LinkOf(r[4][k]).path, 5),
                           LinkOf(r[4][k]).desc)
    /\ EveryLinkResolvedOnce

\* C13: a link to file:T is rendered as a link to T is, by all the rules
\* from the first: with every leading "file:" removed, a target id:X goes by
\* the id: rule and any other by the third rule; resolution ends for every
\* target.
C13_FileRestartsResolution ==
    /\ \A r \in RenderedUnderBase : \A k \in 1..Len(r[4]) :
           IsFileLinkToken(r[4][k]) =>
               LET T == WithoutFilePrefixes(LinkOf(r[4][k]).path)
               IN  IF StartsWith(T, IdPrefix)
                   THEN ByFirstRule(r[4][k], r[3], T, LinkOf(r[4][k]).desc)
                   ELSE ByThirdRule(r[4][k], r[3], T, LinkOf(r[4][k]).desc)
    /\ EveryLinkResolvedOnce

\* the run is over; a file:id: link was rendered as the anchor of an Article
\* and a link with two file: prefixes as a thumbnail under the base
C13_Witness ==
    /\ pc = "done"
    /\ \E r \in RenderedUnderBase : \E k \in 1..Len(r[4]) :
           /\ IsFileLinkToken(r[4][k])
           /\ LinkOf(r[4][k]).path = FilePrefix \o IdPrefix \o IdA
           /\ r[4][k].kind = "a"
           /\ r[4][k].href = HtmlEscape(r[3] \o id_to_path(IdA))
    /\ \E r \in RenderedUnderBase : \E k \in 1..Len(r[4]) :
           /\ IsFileLinkToken(r[4][k])
           /\ LinkOf(r[4][k]).path = FilePrefix \o FilePrefix \o APng
           /\ r[4][k].kind = "thumbnail"
           /\ r[4][k].href = r[3] \o APng


\* the level a headline has in its document
LevelInDocument(node) == orgs[node[1]].hl[node[2]].level

\* the ID property a headline has in its document
IdInDocument(node) == orgs[node[1]].hl[node[2]].id

\* the opening tags of the content that belong to the closing tag at k
OpeningOf(c, k) ==
    {n \in 1..(k - 1) : c[n].kind = "h" /\ c[n].node = c[k].node}

HeadingsAsClaimed(c) ==
    /\ c[1].kind = "h"
    /\ c[1].level = 2
    /\ \A k \in 1..Len(c) :
           c[k].kind = "h" =>
               LET depth == LevelInDocument(c[k].node) - LevelInDocument(c[1].node)
               IN  /\ c[k].level = (IF 2 + depth <= 6 THEN 2 + depth ELSE 6)
                   /\ c[k].id = (IF IdInDocument(c[k].node) = None THEN None
                                 ELSE Some(HtmlEscape(IdInDocument(c[k].node)[1])))
                   /\ \E n \in (k + 1)..Len(c) :
                          c[n].kind = "/h" /\ c[n].node = c[k].node
    /\ \A k \in 1..Len(c) :
           c[k].kind = "/h" =>
               /\ Cardinality(OpeningOf(c, k)) = 1
               /\ \A n \in OpeningOf(c, k) : c[n].level = c[k].level

\* C14: the headline of a rendered Article is a heading of level 2, every
\* headline below it a heading of level min(6, 2 + its depth below the
\* Article's headline); each closing tag has the level of its opening tag;
\* a headline with an ID property has that ID as its id attribute.
C14_HeadingLevels ==
    \A r \in RenderedUnderBase : HeadingsAsClaimed(r[4])

\* the run is over; an Article whose headline has level 2 in its document was
\* rendered, and so was a headline six levels below its Article, as a
\* heading of level 6 with its escaped ID
C14_Witness ==
    /\ pc = "done"
    /\ \E r \in RenderedUnderBase :
           /\ LevelInDocument(r[4][1].node) = 2
           /\ \E k \in 1..Len(r[4]) :
                  /\ r[4][k].kind = "h"
                  /\ LevelInDocument(r[4][k].node) - LevelInDocument(r[4][1].node) = 6
                  /\ r[4][k].level = 6
                  /\ r[4][k].id = Some(HtmlEscape(IdAmp))
                  /\ r[4][k].id # Some(IdAmp)
    /\ \E r \in RenderedUnderBase : \E k \in 1..Len(r[4]) :
           /\ r[4][k].kind = "h"
           /\ r[4][k].id = None
           /\ r[4][k].level = 3

=============================================================================
